---- MODULE Spec2Model ----
(***************************************************************************)
(* tqdm-cpp: the progress adapter tq::tqdm_for_lvalues of tqdm.hpp, the    *)
(* cursor tq::iter_wrapper that drives it, the containers it wraps         *)
(* (std::vector as filled by get_vector, tq::range) and the range-for      *)
(* loop of the callers; tq::tqdm_for_rvalues, which holds the sequence of  *)
(* a temporary and forwards to a tqdm_for_lvalues over it; and             *)
(* TqdmForLvalues of the older header, under the specification Legacy.     *)
(*                                                                         *)
(* Time is counted in units of 0.15 s, so the default                      *)
(* min_time_per_update_ of 0.15 s is 1 unit.  Texts are strings.  The      *)
(* doubles of the code are computed exactly: the fractions given to        *)
(* manually_set_advancement are quarters (exact in binary), and            *)
(* calc_advancement's quotient done/(total + 1e-13) is kept as the pair    *)
(* (done, total) and rounded by RoundTimes, which accounts for the 1e-13.  *)
(***************************************************************************)
EXTENDS Integers, Sequences, FiniteSets, TLC

\* ------------------------------------------------------------ bounds
MaxLen == 2
MaxTraversals == 2
MaxCalls == 3

\* ------------------------------------------------- program constants
DefaultBarSize == 30
DefaultMinTime == 1
DefaultTermCols == 1
VectorBase == 1000

\* --------------------------------------------- inputs of the callers
RangeFirsts == {0, 100}
ExplicitTotals == {0, 10}
BarSizes == {3}
\* set_bar_size(-3), set_bar_size(0): under the specification AnyBarSize
OtherBarSizes == {-3, 0}
MinTimes == {0}
Prefixes == {"p "}
Texts == {"a", "b"}
SleepTimes == {1}
\* manually_set_advancement(k/4): -1, 0.25, 0.5, 1.5
FracDen == 4
Quarters == {-4, 1, 2, 6}
\* the argument of tq::tqdm: A, const A, get_vector(n)
ValueCategories == {"lvalue", "const lvalue", "rvalue"}
\* set_ostream(std::cout); os_ starts as &std::cerr
OStreams == {"cout"}

VARIABLES
    C,                     \* the wrapped sequence
    T,                     \* the adapter's class, what it was built from and
                           \* the object that holds the sequence
    first_, last_,         \* tqdm_for_lvalues: the cursors' current_
    num_iters_, iters_done_,
    chronometer_, refresh_,\* Chronometer::start_ of the two stopwatches
    min_time_per_update_, bar_size_, term_cols_, prefix_, suffix_, os_,
    iters_left_,           \* TqdmForLvalues (older header) only
    streams,               \* std::ios_base::flags() of std::cerr, std::cout
    now,                   \* std::chrono::steady_clock::now()
    pc, it, e,             \* the caller's range-for loop and its two cursors
    yielded,               \* the values the loop body has received
    calls,                 \* the caller's calls besides the loop's own
    fault,                 \* the exception that left update(), or "none"
    traversal, ticks, bodies, renders, lastRender, manual, firstEnd,
    sinceTick, dropped, widest, lastCall
                           \* observers: calls of begin(); calls of update(),
                           \* loop bodies and lines written since begin(); when
                           \* the last line was written; a manual set since
                           \* begin(); iters_done_ at the first loop exit; the
                           \* text appended since the last update(); whether
                           \* appended text was cleared unwritten since the
                           \* last line; the longest sbar + suffix written so
                           \* far; the last call and, for update(), the line
                           \* it wrote to *os_

adapter == <<first_, last_, num_iters_, iters_done_, chronometer_, refresh_,
             min_time_per_update_, bar_size_, term_cols_, prefix_, suffix_,
             os_>>
caller == <<pc, it, e, yielded, calls>>
observers == <<traversal, ticks, bodies, renders, lastRender, manual, firstEnd,
               sinceTick, dropped, widest, lastCall>>
vars == <<C, T, adapter, iters_left_, streams, now, caller, fault, observers>>

\* ------------------------------------------------------------ helpers
Max(a, b) == IF a >= b THEN a ELSE b

RECURSIVE Digits(_)
Digits(n) == IF n < 10 THEN 1 ELSE 1 + Digits(n \div 10)

\* std::iota(A.begin(), A.end(), 1000)
get_vector(n) == [i \in 1..n |-> VectorBase + i - 1]

\* A container as its cursors see it: a vector's cursors are positions
\* 0..size, a range's cursors are the integers themselves.
Vector(data) == [kind |-> "vector", first |-> 0, last |-> Len(data), data |-> data]
range(lo, hi) == [kind |-> "range", first |-> lo, last |-> hi, data |-> <<>>]
size(c) == c.last - c.first

\* ForwardIter::operator* : vector element, or int_iterator::value_
Deref_after_increment(c, cur) ==
    IF c.kind = "vector" THEN c.data[cur + 1] ELSE cur + 1
Deref(c, cur) == IF c.kind = "vector" THEN c.data[cur + 1] ELSE cur

\* iter_wrapper::operator* : auto operator*() { return *current_; }.  The
\* return type auto is deduced without the reference, so the result is a
\* copy of the element and not the element at the cursor's position.
operator_star(c, cur) == [value |-> Deref(c, cur), copy |-> TRUE, at |-> cur]

\* for (auto&& t : T) { t *= m; ... } : t is what operator* returned
times_equals(c, t, m) ==
    IF t.copy \/ c.kind # "vector" THEN c
    ELSE [c EXCEPT !.data[t.at + 1] = m * t.value]

\* ------------------------------------------------------- tq::tqdm, trange
\* What tq::tqdm builds from its argument.  tqdm_for_lvalues keeps cursors
\* into the caller's sequence; tqdm_for_rvalues moves the sequence into its
\* member C_ and builds tqdm_ over C_.  The temporary itself is destroyed at
\* the end of the statement that builds the adapter.
tqdm_for_lvalues(from) ==
    [variant |-> "tqdm_for_lvalues", from |-> from, sequence |-> "caller"]
tqdm_for_rvalues_over_the_temporary(from) ==
    [variant |-> "tqdm_for_rvalues", from |-> from, sequence |-> "temporary"]
tqdm_for_rvalues(from) ==
    [variant |-> "tqdm_for_rvalues", from |-> from, sequence |-> "C_"]
\* overload resolution: Container&& takes the rvalues, and only those
tqdm(from) ==
    IF from = "rvalue" THEN tqdm_for_rvalues(from) ELSE tqdm_for_lvalues(from)
\* tqdm(first, last, total)
tqdm_cursors == tqdm_for_lvalues("cursors")
\* trange(first, last) == tqdm(range(first, last))
trange == tqdm("rvalue")

\* Chronometer::peek
peek(start) == now - start
time_since_refresh == peek(refresh_)

iters_left == num_iters_ - iters_done_

\* ------------------------------------------------- the doubles' values
\* round(d/(t + 1e-13) * m) for d, t, m >= 0, std::round's halves away from
\* zero.  With t = 0 and d*m > 0 the value is d*m*10^13: big, val = d*m.
\* Otherwise d*m/t rounds half up to q, except that an exact half d*m/t =
\* q - 1/2 lies, by the 1e-13, just below it and rounds to q - 1.
RoundTimes(d, t, m) ==
    IF d * m = 0 THEN [big |-> FALSE, val |-> 0]
    ELSE IF t = 0 THEN [big |-> TRUE, val |-> d * m]
    ELSE LET q == (2 * d * m + t) \div (2 * t)
         IN  [big |-> FALSE,
              val |-> IF (2 * d * m + t) % (2 * t) = 0 THEN q - 1 ELSE q]

\* std::round(to*num_iters_) with to = k/FracDen >= 0: halves away from zero
RoundFrac(k, n) == (2 * k * n + FracDen) \div (2 * FracDen)

\* double complete = iters_done_/(num_iters_ + 0.0000000000001), as the pair
calc_advancement == [done |-> iters_done_, total |-> num_iters_]

\* ---------------------------------------------------------- the line
\* print_bar: num_filled '#' and bar_size_ - num_filled ' '.  std::round is
\* odd, so with a negative bar_size_ the product rounds to minus what it
\* rounds to with -bar_size_.
num_filled(filled) ==
    IF bar_size_ >= 0 THEN RoundTimes(filled.done, filled.total, bar_size_)
    ELSE LET r == RoundTimes(filled.done, filled.total, 0 - bar_size_)
         IN  [big |-> r.big, val |-> 0 - r.val]

\* What constructing the two std::string(count, char) of print_bar throws:
\* a count of d*m*10^13 cannot be allocated, a negative count converts to a
\* size beyond max_size().
print_bar_throws(filled) ==
    LET nf == num_filled(filled)
    IN  IF nf.val < 0 THEN "length_error"
        ELSE IF nf.big THEN "bad_alloc"
        ELSE IF bar_size_ - nf.val < 0 THEN "length_error"
        ELSE "none"

\* Widths of the three numbers: std::fixed, std::setprecision(1), and
\* std::setw(4) for the first two.  pct is 100*complete in tenths.
Pct(filled) == RoundTimes(filled.done, filled.total, 1000)
PctWidth(filled) ==
    LET p == Pct(filled)
    IN  IF p.big THEN 15 + Digits(filled.done) + 2
        ELSE Max(4, Digits(p.val \div 10) + 2)
\* t = chronometer_.peek() in seconds is 0.15*t; its tenths are round(1.5*t)
TWidth(t) == Max(4, Digits(((3 * t + 1) \div 2) \div 10) + 2)
\* eta = t/complete - t.  With complete = 0: inf for t > 0, and 0.0/0.0 for
\* t = 0, which glibc on x86-64 prints "-nan".  Otherwise eta is
\* t*(total - done)/done (+ a positive amount below 1e-12), negative
\* exactly when done > total and t > 0.
EtaWidth(filled, t) ==
    LET d == filled.done
        left == filled.total - d
        mag == IF left >= 0 THEN left ELSE 0 - left
    IN  IF d = 0 THEN (IF t > 0 THEN 3 ELSE 4)
        ELSE (IF left < 0 /\ t > 0 THEN 1 ELSE 0)
             + Digits(((3 * t * mag + d) \div (2 * d)) \div 10) + 2

\* sbar.size(): '\r' prefix '{' pct "%} " '[' bar ']' " (" t "s < " eta "s) "
sbar_size(filled, t) ==
    1 + Len(prefix_) + 1 + PctWidth(filled) + 3 + 1 + bar_size_ + 1 + 2
      + TWidth(t) + 4 + EtaWidth(filled, t) + 3

\* auto flags = os_->flags(); ...; os_->flags(flags).  In between
\* std::fixed, std::setprecision and std::setw go to the local stringstream
\* bar, and *os_ is only written strings.
os_flags_left_fixed(flags) == flags \cup {"fixed"}
os_flags_restored(flags) == flags

\* print_progress, when print_bar does not throw: the line written to *os_,
\* the new term_cols_ and the flags *os_ is left with
print_progress_unpadded ==
    LET complete == calc_advancement
        t == peek(chronometer_)
        nf == num_filled(complete).val
        out_size == sbar_size(complete, t) + Len(suffix_)
    IN  [term_cols |-> out_size,
         flags |-> os_flags_restored(streams[os_]),
         line |-> [prefix |-> prefix_, pct |-> Pct(complete),
                   filled |-> nf, blank |-> bar_size_ - nf,
                   suffix |-> suffix_, num_blank |-> 0,
                   size |-> out_size, os |-> os_]]
print_progress ==
    LET complete == calc_advancement
        t == peek(chronometer_)
        nf == num_filled(complete).val
        out_size == sbar_size(complete, t) + Len(suffix_)
        cols == Max(term_cols_, out_size)
    IN  [term_cols |-> cols,
         flags |-> os_flags_restored(streams[os_]),
         line |-> [prefix |-> prefix_, pct |-> Pct(complete),
                   filled |-> nf, blank |-> bar_size_ - nf,
                   suffix |-> suffix_, num_blank |-> cols - out_size,
                   size |-> out_size, os |-> os_]]

NoLine == [prefix |-> "", pct |-> [big |-> FALSE, val |-> 0], filled |-> 0,
           blank |-> 0, suffix |-> "", num_blank |-> 0, size |-> 0, os |-> ""]

\* ------------------------------------------------------ tqdm_for_lvalues
\* The condition of update(): a line is due
refresh_due_no_first ==
    \/ time_since_refresh > min_time_per_update_
    \/ iters_left = 0
refresh_due_no_last ==
    \/ time_since_refresh > min_time_per_update_
    \/ iters_done_ = 0
refresh_due_at_interval ==
    \/ time_since_refresh >= min_time_per_update_
    \/ iters_done_ = 0
    \/ iters_left = 0
refresh_due ==
    \/ time_since_refresh > min_time_per_update_
    \/ iters_done_ = 0
    \/ iters_left = 0

\* ++iters_done_
incremented_not(n) == n
incremented_twice(n) == n + 2
incremented_down(n) == n - 1
incremented(n) == n + 1

\* suffix_.str("")
suffix_kept == suffix_
suffix_cleared == ""

\* begin(): both stopwatches restart, iters_done_ = 0; returns first_
begin_keeps_done ==
    /\ chronometer_' = now
    /\ refresh_' = now
    /\ iters_done_' = iters_done_
begin ==
    /\ chronometer_' = now
    /\ refresh_' = now
    /\ iters_done_' = 0

\* update().  An exception thrown by print_progress leaves update() after
\* reset_refresh_timer() and before ++iters_done_.
update ==
    LET due == refresh_due
        thrown == IF due THEN print_bar_throws(calc_advancement) ELSE "none"
        written == due /\ thrown = "none"
    IN  /\ fault' = thrown
        /\ refresh_' = IF due THEN now ELSE refresh_
        /\ term_cols_' = IF written THEN print_progress.term_cols ELSE term_cols_
        /\ streams' = IF written
                      THEN [streams EXCEPT ![os_] = print_progress.flags]
                      ELSE streams
        /\ widest' = IF written THEN Max(widest, print_progress.line.size)
                     ELSE widest
        /\ iters_done_' = IF thrown = "none" THEN incremented(iters_done_)
                          ELSE iters_done_
        /\ suffix_' = IF thrown = "none" THEN suffix_cleared ELSE suffix_
        /\ ticks' = ticks + 1
        /\ renders' = IF written THEN renders + 1 ELSE renders
        /\ sinceTick' = ""
        /\ dropped' = IF written THEN FALSE ELSE (dropped \/ sinceTick # "")
        /\ lastRender' = IF written THEN now ELSE lastRender
        /\ lastCall' = [op |-> "update", due |-> due, rendered |-> written,
                        elapsed |-> time_since_refresh,
                        line |-> IF written THEN print_progress.line ELSE NoLine,
                        first |-> ticks = 0,
                        gap |-> IF renders > 0 THEN now - lastRender ELSE -1,
                        min |-> min_time_per_update_,
                        done |-> iters_done_, left |-> iters_left,
                        appended |-> sinceTick, dropped |-> dropped]

set_ostream(os) == os_' = os
set_prefix(s) == prefix_' = s
set_bar_size(n) == bar_size_' = n
set_min_update_time(time) == min_time_per_update_' = time

\* operator<< : suffix_ << t
operator_shl(t) == suffix_' = suffix_ \o t

\* manually_set_advancement(k/FracDen)
manually_set_advancement_unclamped(k) ==
    LET to == IF k < 0 THEN 0 ELSE k
    IN  iters_done_' = RoundFrac(to, num_iters_)
manually_set_advancement(k) ==
    LET to == IF k > FracDen THEN FracDen ELSE IF k < 0 THEN 0 ELSE k
    IN  iters_done_' = RoundFrac(to, num_iters_)

\* ------------------------------------------------------ tqdm_for_rvalues
\* Every member function forwards to the member tqdm_, a tqdm_for_lvalues
\* over C_.  begin() and end() return tqdm_'s cursors, whose parent_ is
\* &tqdm_: the comparisons of the loop call tqdm_.update() directly.
tqdm_for_rvalues_begin == begin
tqdm_for_rvalues_set_ostream(os) == set_ostream(os)
tqdm_for_rvalues_set_prefix_dropped(s) == prefix_' = prefix_
tqdm_for_rvalues_set_prefix(s) == set_prefix(s)
tqdm_for_rvalues_set_bar_size(n) == set_bar_size(n)
tqdm_for_rvalues_set_min_update_time(time) == set_min_update_time(time)
tqdm_for_rvalues_operator_shl(t) == operator_shl(t)
tqdm_for_rvalues_manually_set_advancement(k) == manually_set_advancement(k)

Owned == T.variant = "tqdm_for_rvalues"

\* ------------------------------------------------------------- Init
\* tqdm(C) and trange take num_iters_ from C.size(); tqdm(first, last, total)
\* takes the total the caller gives.
\* The callers pass their own vector A of any length, the range of a trange,
\* and a one-element vector in each of the three ways of the examples.
Vectors == {Vector(get_vector(n)) : n \in 0..MaxLen}
Ranges == {range(lo, lo + MaxLen) : lo \in RangeFirsts}

\* std::ios_base::Init: skipws | dec, and unitbuf for std::cerr
StdStreams == [cerr |-> {"skipws", "dec", "unitbuf"}, cout |-> {"skipws", "dec"}]

Init ==
    /\ C \in Vectors \cup Ranges
    /\ first_ = C.first
    /\ last_ = C.last
    /\ num_iters_ \in {size(C)}
                      \cup (IF C.kind = "vector" /\ size(C) = MaxLen
                            THEN ExplicitTotals ELSE {})
    /\ T \in IF C.kind = "range" THEN {trange}
             ELSE IF num_iters_ # size(C) THEN {tqdm_cursors}
             ELSE IF size(C) = 1 THEN {tqdm(from) : from \in ValueCategories}
             ELSE {tqdm("lvalue")}
    /\ iters_done_ = 0
    /\ iters_left_ = 0
    /\ now = 0
    /\ chronometer_ = 0
    /\ refresh_ = 0
    /\ min_time_per_update_ = DefaultMinTime
    /\ bar_size_ = DefaultBarSize
    /\ term_cols_ = DefaultTermCols
    /\ prefix_ = ""
    /\ suffix_ = ""
    /\ os_ = "cerr"
    /\ streams = StdStreams
    /\ pc = "idle"
    /\ it = C.first
    /\ e = C.last
    /\ yielded = <<>>
    /\ calls = 0
    /\ fault = "none"
    /\ traversal = 0
    /\ ticks = 0
    /\ bodies = 0
    /\ renders = 0
    /\ lastRender = -1
    /\ manual = FALSE
    /\ firstEnd = -1
    /\ sinceTick = ""
    /\ dropped = FALSE
    /\ widest = 0
    /\ lastCall = [op |-> "tqdm"]

\* ------------------------------------------- the caller's range-for loop
\* for (auto it = T.begin(), e = T.end(); it != e; ++it) { auto t = *it; ... }
UserCode == {"idle", "body", "done", "broken"}

config == <<min_time_per_update_, bar_size_, prefix_>>
cursors == <<C, first_, last_, num_iters_>>
clocks == <<chronometer_, refresh_, now>>
counts == <<traversal, ticks, bodies, renders, lastRender, firstEnd>>
\* what no member function of tqdm_for_lvalues touches
apart == <<T, iters_left_>>

ForBegin ==
    /\ pc \in {"idle", "done", "broken"}
    /\ traversal < MaxTraversals
    /\ IF Owned THEN tqdm_for_rvalues_begin ELSE begin
    /\ it' = first_
    /\ e' = last_
    /\ pc' = "cmp"
    /\ yielded' = <<>>
    /\ traversal' = traversal + 1
    /\ ticks' = 0
    /\ bodies' = 0
    /\ renders' = 0
    /\ manual' = FALSE
    /\ lastCall' = [op |-> "begin"]
    /\ UNCHANGED <<cursors, config, term_cols_, suffix_, os_, now, calls, fault,
                   lastRender, firstEnd, sinceTick, dropped, widest, apart,
                   streams>>

\* iter_wrapper::operator!= : parent_->update(); return current_ != other.current_
ForCompare ==
    /\ pc = "cmp"
    /\ update
    /\ pc' = IF fault' # "none" THEN "fault"
             ELSE IF it # e THEN "deref" ELSE "done"
    /\ firstEnd' = IF fault' = "none" /\ it = e /\ traversal = 1 /\ ~manual
                   THEN iters_done_' ELSE firstEnd
    /\ UNCHANGED <<cursors, config, chronometer_, os_, now, it, e, yielded, calls,
                   traversal, bodies, manual, apart>>

\* iter_wrapper::operator* : the loop variable is initialised from *current_;
\* the body of test_lvalue, over the caller's own vector, starts with t *= 2
ForDeref ==
    /\ pc = "deref"
    /\ LET t == operator_star(C, it)
       IN  /\ yielded' = Append(yielded, t.value)
           /\ C' = IF T.from = "lvalue" THEN times_equals(C, t, 2) ELSE C
    /\ pc' = "body"
    /\ bodies' = bodies + 1
    /\ lastCall' = [op |-> "operator*"]
    /\ UNCHANGED <<adapter, now, it, e, calls, fault, traversal, ticks, renders,
                   lastRender, firstEnd, manual, sinceTick, dropped, widest,
                   apart, streams>>

\* iter_wrapper::operator++ : ++current_
ForIncrement ==
    /\ pc = "body"
    /\ it' = it + 1
    /\ pc' = "cmp"
    /\ lastCall' = [op |-> "operator++"]
    /\ UNCHANGED <<C, adapter, now, e, yielded, calls, fault, counts, manual,
                   sinceTick, dropped, widest, apart, streams>>

\* the caller leaves the loop early
ForBreak ==
    /\ pc = "body"
    /\ pc' = "broken"
    /\ lastCall' = [op |-> "break"]
    /\ UNCHANGED <<C, adapter, now, it, e, yielded, calls, fault, counts, manual,
                   sinceTick, dropped, widest, apart, streams>>

\* ------------------------------------------- the caller's other calls
UserCall ==
    /\ pc \in UserCode
    /\ calls < MaxCalls
    /\ calls' = calls + 1
    /\ UNCHANGED <<pc, it, e, yielded, cursors, clocks, term_cols_, fault, counts,
                   widest, apart, streams>>


Append_(t) ==
    /\ UserCall
    /\ IF Owned THEN tqdm_for_rvalues_operator_shl(t) ELSE operator_shl(t)
    /\ sinceTick' = sinceTick \o t
    /\ lastCall' = [op |-> "operator<<", arg |-> t]
    /\ UNCHANGED <<config, os_, iters_done_, manual, dropped>>

ManualSet(k) ==
    /\ UserCall
    /\ IF Owned THEN tqdm_for_rvalues_manually_set_advancement(k)
       ELSE manually_set_advancement(k)
    /\ manual' = TRUE
    /\ lastCall' = [op |-> "manually_set_advancement", arg |-> k]
    /\ UNCHANGED <<config, os_, suffix_, sinceTick, dropped>>

\* the sink is chosen before the first loop
SetOstream(os) ==
    /\ UserCall
    /\ pc = "idle"
    /\ IF Owned THEN tqdm_for_rvalues_set_ostream(os) ELSE set_ostream(os)
    /\ lastCall' = [op |-> "set_ostream", arg |-> os]
    /\ UNCHANGED <<config, iters_done_, suffix_, manual, sinceTick, dropped>>

SetPrefix(s) ==
    /\ UserCall
    /\ IF Owned THEN tqdm_for_rvalues_set_prefix(s) ELSE set_prefix(s)
    /\ lastCall' = [op |-> "set_prefix", arg |-> s]
    /\ UNCHANGED <<min_time_per_update_, bar_size_, os_, iters_done_, suffix_,
                   manual, sinceTick, dropped>>

SetBarSize(n) ==
    /\ UserCall
    /\ IF Owned THEN tqdm_for_rvalues_set_bar_size(n) ELSE set_bar_size(n)
    /\ lastCall' = [op |-> "set_bar_size", arg |-> n]
    /\ UNCHANGED <<min_time_per_update_, prefix_, os_, iters_done_, suffix_,
                   manual, sinceTick, dropped>>

SetMinUpdateTime(time) ==
    /\ UserCall
    /\ IF Owned THEN tqdm_for_rvalues_set_min_update_time(time)
       ELSE set_min_update_time(time)
    /\ lastCall' = [op |-> "set_min_update_time", arg |-> time]
    /\ UNCHANGED <<bar_size_, prefix_, os_, iters_done_, suffix_, manual,
                   sinceTick, dropped>>

\* usleep in the loop body or between loops: the steady clock advances
usleep(d) ==
    /\ pc \in UserCode
    /\ calls < MaxCalls
    /\ calls' = calls + 1
    /\ now' = now + d
    /\ lastCall' = [op |-> "usleep", arg |-> d]
    /\ UNCHANGED <<C, adapter, pc, it, e, yielded, fault, counts, manual,
                   sinceTick, dropped, widest, apart, streams>>

Next ==
    \/ ForBegin
    \/ ForCompare
    \/ ForDeref
    \/ ForIncrement
    \/ ForBreak
    \/ \E t \in Texts : Append_(t)
    \/ \E k \in Quarters : ManualSet(k)
    \/ \E os \in OStreams : SetOstream(os)
    \/ \E s \in Prefixes : SetPrefix(s)
    \/ \E n \in BarSizes : SetBarSize(n)
    \/ \E time \in MinTimes : SetMinUpdateTime(time)
    \/ \E d \in SleepTimes : usleep(d)

Spec == Init /\ [][Next]_vars

\* The same callers, who may also give set_bar_size a value that is not
\* positive
AnyBarSizeNext ==
    \/ Next
    \/ \E n \in OtherBarSizes : SetBarSize(n)

AnyBarSize == Init /\ [][AnyBarSizeNext]_vars

\* --------------------------------- TqdmForLvalues of the older header
\* The older header counts down iters_left_ besides counting up
\* iters_done_, has no num_iters_ and no term_cols_, and calls its second
\* stopwatch clear_chrono_ (refresh_ here).  Its print_bar writes the bar in
\* two loops and cannot throw.

\* begin(): both stopwatches restart, iters_left_ = std::distance(first_,
\* last_); iters_done_ is not assigned
TqdmForLvalues_begin ==
    /\ chronometer_' = now
    /\ refresh_' = now
    /\ iters_left_' = last_ - first_
    /\ iters_done_' = iters_done_

\* print_progress: complete = double(iters_done_)/total with
\* total = iters_done_ + iters_left_ + 1e-13, as the pair
TqdmForLvalues_complete ==
    [done |-> iters_done_, total |-> iters_done_ + iters_left_]

TqdmForLvalues_update ==
    LET due == \/ time_since_refresh > min_time_per_update_
               \/ iters_done_ = 0
               \/ iters_left_ = 0
    IN  /\ refresh_' = IF due THEN now ELSE refresh_
        /\ iters_done_' = iters_done_ + 1
        /\ iters_left_' = iters_left_ - 1
        /\ suffix_' = ""
        /\ ticks' = ticks + 1
        /\ renders' = IF due THEN renders + 1 ELSE renders
        /\ sinceTick' = ""
        /\ dropped' = IF due THEN FALSE ELSE (dropped \/ sinceTick # "")
        /\ lastRender' = IF due THEN now ELSE lastRender
        /\ lastCall' = [op |-> "update", due |-> due, rendered |-> due,
                        first |-> ticks = 0,
                        pct |-> Pct(TqdmForLvalues_complete),
                        suffix |-> IF due THEN suffix_ ELSE "",
                        done |-> iters_done_, left |-> iters_left_]

LegacyInit ==
    /\ Init
    /\ num_iters_ = size(C)

LegacyForBegin ==
    /\ pc \in {"idle", "done", "broken"}
    /\ traversal < MaxTraversals
    /\ TqdmForLvalues_begin
    /\ it' = first_
    /\ e' = last_
    /\ pc' = "cmp"
    /\ yielded' = <<>>
    /\ traversal' = traversal + 1
    /\ ticks' = 0
    /\ bodies' = 0
    /\ renders' = 0
    /\ manual' = FALSE
    /\ lastCall' = [op |-> "begin"]
    /\ UNCHANGED <<cursors, config, term_cols_, suffix_, os_, now, calls, fault,
                   lastRender, firstEnd, sinceTick, dropped, widest, T, streams>>

LegacyForCompare ==
    /\ pc = "cmp"
    /\ TqdmForLvalues_update
    /\ pc' = IF it # e THEN "deref" ELSE "done"
    /\ UNCHANGED <<cursors, config, chronometer_, term_cols_, os_, now, it, e,
                   yielded, calls, fault, traversal, bodies, manual, firstEnd,
                   widest, T, streams>>

LegacyNext ==
    \/ LegacyForBegin
    \/ LegacyForCompare
    \/ ForDeref
    \/ ForIncrement
    \/ ForBreak
    \/ \E t \in Texts : Append_(t)
    \/ \E time \in MinTimes : SetMinUpdateTime(time)
    \/ \E d \in SleepTimes : usleep(d)

Legacy == LegacyInit /\ [][LegacyNext]_vars

\* ------------------------------------------------------------ claims
\* A traversal of an adapter built from the container (total = N), run to
\* the comparison that ends the loop, with no manual set since begin()
FullTraversal == pc = "done" /\ num_iters_ = size(C) /\ ~manual
\* The state right after a call of update(); with pc = "done" it is the
\* call made by the comparison that ended the loop
AfterUpdate == lastCall.op = "update"

\* C1 (as stated): after a full traversal of N elements the number of ticks
\* equals N, the number of loop bodies run, and iters_done_ = N.
C1_TicksEqualBodies ==
    FullTraversal =>
        /\ ticks = size(C)
        /\ ticks = bodies
        /\ iters_done_ = size(C)

\* C1 (amended): after a full traversal of N elements the loop body has run
\* N times, update() has been called N + 1 times (once per comparison, the
\* one that ends the loop included) and iters_done_ = N + 1.
C1_TicksOneMoreThanBodies ==
    FullTraversal =>
        /\ bodies = size(C)
        /\ ticks = size(C) + 1
        /\ iters_done_ = size(C) + 1
C1_Witness ==
    /\ FullTraversal
    /\ size(C) = 2
    /\ bodies = 2
    /\ ticks = 3
    /\ iters_done_ = 3

\* C2 (as stated): the last tick of a full traversal of N >= 0 elements
\* writes a line, computed from done = total, that shows 100.0% and a bar
\* of bar_size_ filled segments.
C2_LastTickShowsComplete ==
    (FullTraversal /\ AfterUpdate) =>
        /\ lastCall.rendered
        /\ lastCall.done = num_iters_
        /\ lastCall.line.pct = [big |-> FALSE, val |-> 1000]
        /\ lastCall.line.filled = bar_size_
        /\ lastCall.line.blank = 0

\* C2 (amended): the last tick of a full traversal writes a line whatever
\* time has elapsed, computed from done = total; for N >= 1 it shows 100.0%
\* and a full bar, for N = 0 it shows 0.0% and an empty bar.
C2_LastTickRenders ==
    (FullTraversal /\ AfterUpdate) =>
        /\ lastCall.rendered
        /\ lastCall.done = num_iters_
        /\ ~lastCall.line.pct.big
        /\ size(C) >= 1 =>
              /\ lastCall.line.pct.val = 1000
              /\ lastCall.line.filled = bar_size_
              /\ lastCall.line.blank = 0
        /\ size(C) = 0 =>
              /\ lastCall.line.pct.val = 0
              /\ lastCall.line.filled = 0
              /\ lastCall.line.blank = bar_size_
C2_Witness ==
    /\ FullTraversal
    /\ AfterUpdate
    /\ size(C) = 2
    /\ lastCall.rendered
    /\ lastCall.elapsed <= lastCall.min
    /\ lastCall.line.pct.val = 1000
    /\ lastCall.line.filled = DefaultBarSize

C4_FirstTickRenders ==
    (AfterUpdate /\ lastCall.first) => lastCall.rendered
C4_Witness ==
    /\ AfterUpdate
    /\ lastCall.first
    /\ traversal = 2
    /\ lastCall.elapsed <= lastCall.min
    /\ lastCall.rendered

\* C5: the values the loop receives are the elements of the wrapped
\* sequence in order (first, first + 1, ... for a range), all of them once
\* the loop has ended, whatever update() did along the way.
Elements(c) ==
    IF c.kind = "vector" THEN c.data
    ELSE [i \in 1..(c.last - c.first) |-> c.first + i - 1]
C5_YieldsTheSequence ==
    /\ Len(yielded) <= Len(Elements(C))
    /\ yielded = SubSeq(Elements(C), 1, Len(yielded))
    /\ pc \in {"body", "broken"} => Len(yielded) = bodies
    /\ pc = "done" => yielded = Elements(C)
    /\ (pc = "done" /\ C = range(100, 102)) => yielded = <<100, 101>>
    /\ (pc = "done" /\ C = range(0, 2)) => yielded = <<0, 1>>
C5_Witness ==
    /\ pc = "done"
    /\ C = range(100, 102)
    /\ yielded = <<100, 101>>
    /\ renders >= 2
    /\ ticks = 3
\* C6 (as stated): 0 <= iters_done_ <= num_iters_ in every reachable state.
C6_DoneWithinTotal ==
    /\ 0 <= iters_done_
    /\ iters_done_ <= num_iters_

\* C6 (amended): iters_done_ >= 0 in every reachable state, and
\* iters_done_ <= num_iters_ before the first traversal; in a traversal of
\* an adapter built from the container (total = N) with no manual set,
\* every tick finds iters_done_ <= num_iters_, and iters_done_ is at most
\* num_iters_ + 1, a value it has exactly when the loop has exited.
C6_DoneWithinTotalPlusOne ==
    /\ 0 <= iters_done_
    /\ traversal = 0 => iters_done_ <= num_iters_
    /\ (traversal > 0 /\ num_iters_ = size(C) /\ ~manual) =>
          /\ iters_done_ <= num_iters_ + 1
          /\ iters_done_ = num_iters_ + 1 <=> pc = "done"
          /\ AfterUpdate => lastCall.done <= num_iters_
C6_Witness ==
    /\ FullTraversal
    /\ traversal = 2
    /\ size(C) = 2
    /\ iters_done_ = num_iters_ + 1

\* C7 (as stated): a written line shows all the text appended since the
\* line before it, in the order of the calls, and suffix_ is empty after it.
C7_RenderShowsAllAppended ==
    (AfterUpdate /\ lastCall.rendered) =>
        /\ ~lastCall.dropped
        /\ lastCall.line.suffix = lastCall.appended
        /\ suffix_ = ""

\* C7 (amended): a written line shows the text appended since the previous
\* tick (rendered or not), in the order of the calls, and suffix_ is empty
\* after it; text appended before a tick that writes no line is dropped.
C7_RenderShowsAppendedSinceTick ==
    /\ (AfterUpdate /\ lastCall.rendered) =>
          /\ lastCall.line.suffix = lastCall.appended
          /\ suffix_ = ""
    /\ (AfterUpdate /\ ~lastCall.due) => suffix_ = ""
C7_Witness ==
    /\ AfterUpdate
    /\ lastCall.rendered
    /\ lastCall.appended = "ab"
    /\ lastCall.line.suffix = "ab"
    /\ lastCall.dropped
    /\ suffix_ = ""

\* C8: whenever update() calls print_progress, the line is written with
\* round(complete*bar_size_) clamped to [0, bar_size_] filled segments, and
\* filled and blank segments number bar_size_ together.
ClampedFill(done, total) ==
    LET r == RoundTimes(done, total, bar_size_)
    IN  IF r.big \/ r.val > bar_size_ THEN bar_size_ ELSE r.val
C8_BarFillClamped ==
    (AfterUpdate /\ lastCall.due) =>
        /\ fault = "none"
        /\ lastCall.rendered
        /\ lastCall.line.filled = ClampedFill(lastCall.done, num_iters_)
        /\ lastCall.line.filled + lastCall.line.blank = bar_size_
        /\ lastCall.line.blank >= 0

\* C9: manually_set_advancement(k/4) sets iters_done_ to the integer
\* nearest to c*num_iters_, c = k/4 clamped to [0, 1], halves going up, and
\* changes nothing else: no line is written, num_iters_, the two
\* stopwatches and suffix_ stay.
C9_ManualSetRounds ==
    [][lastCall'.op = "manually_set_advancement" =>
        LET k == lastCall'.arg
            c == IF k > FracDen THEN FracDen ELSE IF k < 0 THEN 0 ELSE k
        IN  /\ FracDen * (2 * iters_done_' - 1) <= 2 * c * num_iters_
            /\ 2 * c * num_iters_ < FracDen * (2 * iters_done_' + 1)
            /\ (num_iters_ = 10 /\ k = 2) => iters_done_' = 5
            /\ (num_iters_ = 10 /\ k = 6) => iters_done_' = 10
            /\ (num_iters_ = 10 /\ k = -4) => iters_done_' = 0
            /\ UNCHANGED <<num_iters_, chronometer_, refresh_, now, suffix_,
                           term_cols_, renders, lastRender, fault>>]_vars
C9_Witness ==
    /\ lastCall.op = "manually_set_advancement"
    /\ lastCall.arg = 2
    /\ num_iters_ = 10
    /\ iters_done_ = 5
    /\ traversal = 1
    /\ renders > 0

\* C10: begin() sets iters_done_ to 0 and restarts both stopwatches, and
\* keeps num_iters_; the first tick of every traversal shows 0.0%, and a
\* later full traversal ends with the iters_done_ the first one ended with.
C10_BeginResets ==
    [][/\ lastCall'.op = "begin" =>
             /\ iters_done_' = 0
             /\ chronometer_' = now'
             /\ refresh_' = now'
             /\ num_iters_' = num_iters_
       /\ (lastCall'.op = "update" /\ lastCall'.first) =>
             /\ lastCall'.done = 0
             /\ lastCall'.rendered
             /\ lastCall'.line.pct = [big |-> FALSE, val |-> 0]
       /\ (pc' = "done" /\ ~manual' /\ traversal' > 1 /\ firstEnd' >= 0) =>
             iters_done_' = firstEnd']_vars
C10_Witness ==
    /\ pc = "done"
    /\ ~manual
    /\ traversal = 2
    /\ size(C) = 2
    /\ firstEnd = 3
    /\ iters_done_ = 3
    /\ chronometer_ > 0

\* C11 (as stated): between one begin() and the next, iters_done_ never
\* decreases, whatever is called on the adapter (update, operator<<,
\* manually_set_advancement, the set_ functions).
C11_DoneNeverDecreases ==
    [][lastCall'.op # "begin" => iters_done_' >= iters_done_]_vars

\* C11 (amended): between one begin() and the next, iters_done_ never
\* decreases under update, operator<< and the set_ functions, and an
\* update() that returns raises it by exactly 1; manually_set_advancement
\* sets it to a value in 0..num_iters_ that may be lower than the one before.
C11_DoneDecreasesOnlyByManualSet ==
    [][/\ lastCall'.op \notin {"begin", "manually_set_advancement"} =>
             iters_done_' >= iters_done_
       /\ (lastCall'.op = "update" /\ fault' = "none") =>
             iters_done_' = iters_done_ + 1
       /\ lastCall'.op \in {"operator<<", "set_prefix", "set_bar_size",
                            "set_min_update_time", "set_ostream"} =>
             iters_done_' = iters_done_
       /\ (lastCall'.op = "manually_set_advancement" /\ num_iters_ >= 0) =>
             /\ 0 <= iters_done_'
             /\ iters_done_' <= num_iters_]_vars
C11_Witness ==
    /\ lastCall.op = "manually_set_advancement"
    /\ lastCall.arg = 1
    /\ pc = "done"
    /\ ticks = 3
    /\ num_iters_ = 2
    /\ iters_done_ = 1

\* C12: every line written has the length (sbar, suffix and blanks
\* together) of the longest sbar + suffix written so far, by this line
\* included; the number of blanks is never negative, and term_cols_ is that
\* length.
C12_LineWidthNeverShrinks ==
    (AfterUpdate /\ lastCall.rendered) =>
        /\ lastCall.line.num_blank >= 0
        /\ lastCall.line.size <= widest
        /\ lastCall.line.size + lastCall.line.num_blank = widest
        /\ term_cols_ = widest
C12_Witness ==
    /\ AfterUpdate
    /\ lastCall.rendered
    /\ lastCall.line.num_blank = 2
    /\ lastCall.line.suffix = ""
    /\ lastCall.line.size + 2 = widest
    /\ traversal = 2

\* C13: when the loop over an adapter built from the caller's own vector
\* (a mutable lvalue) has ended, with a body that doubles the loop variable,
\* every element of the caller's vector is doubled; for the other adapters
\* the elements are the ones the vector was filled with.
C13_WriteThrough ==
    (pc = "done" /\ C.kind = "vector") =>
        C.data = IF T.from = "lvalue"
                 THEN [i \in 1..Len(C.data) |-> 2 * get_vector(Len(C.data))[i]]
                 ELSE get_vector(Len(C.data))

\* C14: with num_iters_ = 0 (an empty sequence, or tqdm(first, last, 0)) no
\* call of update() ends in an exception.
C14_ZeroTotalNeverFaults ==
    num_iters_ = 0 => (fault = "none" /\ pc # "fault")

C16_CompareTicksOnce ==
    AfterUpdate =>
        /\ iters_done_ = lastCall.done + 1
        /\ fault = "none"
        /\ pc = IF it # e THEN "deref" ELSE "done"

\* C17: after every call of update(), whether it wrote a line or not,
\* suffix_ is empty.
C17_SuffixEmptyAfterTick ==
    AfterUpdate => suffix_ = ""

\* C18: an update() that finds a line due changes, by rendering, only
\* refresh_ and term_cols_ and writes one line to *os_: iters_done_ is the
\* value the line was computed from plus the tick's own increment,
\* num_iters_, prefix_, bar_size_, min_time_per_update_, os_ and the other
\* stopwatch stay, and the flags of every stream are the ones they were.
C18_RenderFrame ==
    [][(lastCall'.op = "update" /\ lastCall'.due) =>
          /\ UNCHANGED <<num_iters_, prefix_, bar_size_, min_time_per_update_,
                         os_, chronometer_, C, first_, last_>>
          /\ streams' = streams
          /\ streams'[os_] = streams[os_]
          /\ refresh_' = now
          /\ lastCall'.done = iters_done_
          /\ lastCall'.rendered =>
                /\ iters_done_' = iters_done_ + 1
                /\ renders' = renders + 1
                /\ lastCall'.line.os = os_
                /\ lastCall'.line.prefix = prefix_
                /\ term_cols_' = lastCall'.line.size + lastCall'.line.num_blank
          /\ ~lastCall'.rendered =>
                /\ iters_done_' = iters_done_
                /\ renders' = renders
                /\ term_cols_' = term_cols_]_vars
C18_Witness ==
    /\ AfterUpdate
    /\ lastCall.rendered
    /\ lastCall.line.os = "cout"
    /\ os_ = "cout"
    /\ streams = StdStreams
    /\ prefix_ = "p "
    /\ traversal = 2
    /\ renders = 2

\* C19: every call on a tqdm_for_rvalues has exactly the effect of the same
\* call on a tqdm_for_lvalues over the sequence it holds: begin, the ticks of
\* its cursors, operator<<, manually_set_advancement and the set_ functions.
C19_OwnedForwards ==
    [][Owned =>
          /\ lastCall'.op = "begin" =>
                /\ begin
                /\ it' = first_
                /\ e' = last_
          /\ lastCall'.op = "update" => update
          /\ lastCall'.op = "operator<<" => operator_shl(lastCall'.arg)
          /\ lastCall'.op = "manually_set_advancement" =>
                manually_set_advancement(lastCall'.arg)
          /\ lastCall'.op = "set_prefix" => set_prefix(lastCall'.arg)
          /\ lastCall'.op = "set_bar_size" => set_bar_size(lastCall'.arg)
          /\ lastCall'.op = "set_min_update_time" =>
                set_min_update_time(lastCall'.arg)
          /\ lastCall'.op = "set_ostream" => set_ostream(lastCall'.arg)]_vars
C19_Witness ==
    /\ Owned
    /\ T.sequence = "C_"
    /\ C.kind = "range"
    /\ pc = "done"
    /\ prefix_ = "p "
    /\ os_ = "cout"
    /\ yielded = <<100, 101>>
    /\ iters_done_ = 3
    /\ renders >= 2

\* C20: in the older header every begin() starts the progress from zero:
\* the first tick after it writes a line that shows 0.0%, every line shows
\* the ticks since begin() over the length of the sequence, and after every
\* tick iters_done_ + iters_left_ is the length of the sequence.
C20_LegacyBeginStartsFromZero ==
    /\ (AfterUpdate /\ lastCall.first) =>
          /\ lastCall.rendered
          /\ lastCall.pct = [big |-> FALSE, val |-> 0]
    /\ (AfterUpdate /\ lastCall.rendered) =>
          lastCall.pct = RoundTimes(ticks - 1, size(C), 1000)
    /\ AfterUpdate => iters_done_ + iters_left_ = size(C)

\* C21: after set_bar_size with a negative value bar_size_ is 0, and every
\* update() that finds a line due while bar_size_ <= 0 writes it, with no
\* '#' and no ' ' between the brackets.
C21_NegativeBarSizeClamped ==
    /\ (lastCall.op = "set_bar_size" /\ lastCall.arg < 0) => bar_size_ = 0
    /\ bar_size_ >= 0
    /\ (AfterUpdate /\ lastCall.due /\ bar_size_ <= 0) =>
          /\ fault = "none"
          /\ lastCall.rendered
          /\ lastCall.line.filled = 0
          /\ lastCall.line.blank = 0
====
